---- MODULE Spec2Model ----
(***************************************************************************)
(* convert_and_optimize_to_numerics (src/python/datasets.py, duplicated in *)
(* src/python/modeling_focused.py) as a state machine: one call on a       *)
(* DataFrame, one action per statement of the function body.               *)
(*                                                                         *)
(* A DataFrame is a sequence of columns [name, dtype, vals]; a value is a  *)
(* record [t, n, hi, fr]:                                                  *)
(*   t  : "int", "float", "bool", "str", "obj" or "null" (None/NaN/NA)     *)
(*   n  : the low part of a number, the rank of a string in Alphabet,      *)
(*        1/0 for True/False                                               *)
(*   hi : the high part of a 64-bit integer, value = hi * 2^32 + n, with   *)
(*        n in the signed 32-bit range                                     *)
(*   fr : the fractional part of a float: FrNone (none), FrEps (1e-9,      *)
(*        inside numpy.allclose's default atol of 1e-8), FrHalf (0.5)      *)
(* Frames live in a two-slot heap ("caller": the object the caller passed, *)
(* "local": the object the function's new_df name is bound to), so that    *)
(* writing through an alias of the caller's frame is expressible.          *)
(*                                                                         *)
(* The module also models, each under a specification of its own:          *)
(*   SpecPath      update_path (src/python/general.py), one action a call  *)
(*   SpecScaffold  ensure_makefile_and_env (src/python/general.py), one    *)
(*                 action per step of its body                             *)
(*   SpecCli       one run of a module's Typer app                         *)
(*                 (src/modules/python/*/cli.py)                           *)
(* Spec and SpecNames are the call of convert_and_optimize_to_numerics.    *)
(***************************************************************************)
EXTENDS Integers, Sequences, FiniteSets, TLC

\* Largest number of cells (rows x columns) of an input frame.
MaxCells == 4
\* Largest number of columns of an input frame.
MaxCols == 2

\* Column labels the inputs draw from.
ColNames == {"x", "y", "z"}
\* The strings the inputs draw from, in lexical order; a string value holds its rank.
Alphabet == <<"a", "b">>

FrNone == "none"
FrEps == "eps"
FrHalf == "half"

\* dtypes: numpy dtypes are not nullable, pandas extension dtypes are.
Dtype(k, b, nl) == [kind |-> k, bits |-> b, nullable |-> nl]
NpInt(b) == Dtype("int", b, FALSE)
NpFloat64 == Dtype("float", 64, FALSE)
NpBool == Dtype("bool", 8, FALSE)
NpObject == Dtype("object", 0, FALSE)
PdInt(b) == Dtype("int", b, TRUE)
PdFloat(b) == Dtype("float", b, TRUE)
PdBoolean == Dtype("bool", 8, TRUE)
PdString == Dtype("string", 0, TRUE)

Null == [t |-> "null", n |-> 0, hi |-> 0, fr |-> FrNone]
IntV(k) == [t |-> "int", n |-> k, hi |-> 0, fr |-> FrNone]
FloatV(k, f) == [t |-> "float", n |-> k, hi |-> 0, fr |-> f]
BoolV(b) == [t |-> "bool", n |-> b, hi |-> 0, fr |-> FrNone]
StrV(k) == [t |-> "str", n |-> k, hi |-> 0, fr |-> FrNone]
ObjV == [t |-> "obj", n |-> 0, hi |-> 0, fr |-> FrNone]
\* 3000000000 = 1 * 2^32 - 1294967296: an integer that needs 64 bits.
BigV == [t |-> "int", n |-> -1294967296, hi |-> 1, fr |-> FrNone]

IsNull(v) == v.t = "null"
Present(vals) == {i \in 1..Len(vals) : ~IsNull(vals[i])}
AsInt(v) == [v EXCEPT !.t = "int", !.fr = FrNone]

\* The values a numpy column of each storage dtype can hold.
Int64Values == {IntV(1), IntV(200), IntV(-40000), BigV}
Float64Values == {FloatV(1, FrHalf), FloatV(200, FrNone), FloatV(1, FrEps), Null}
BoolValues == {BoolV(1), BoolV(0)}
ObjectValues == {StrV(1), StrV(2), BoolV(1), ObjV, Null}

StorageDtypes == {NpInt(64), NpFloat64, NpBool, NpObject}

StorageValues(dtype) ==
    CASE dtype = NpInt(64) -> Int64Values
      [] dtype = NpFloat64 -> Float64Values
      [] dtype = NpBool -> BoolValues
      [] dtype = NpObject -> ObjectValues

\* The columns of a given length a numpy-backed DataFrame can hold.
Columns(rows) ==
    UNION {{[dtype |-> dt, vals |-> vs] : vs \in [1..rows -> StorageValues(dt)]} :
           dt \in StorageDtypes}

\* The frame with the given labels over the given columns.
Frame(names, cols) ==
    [j \in 1..Len(names) |->
        [name |-> names[j], dtype |-> cols[j].dtype, vals |-> cols[j].vals]]

Shapes == {s \in (1..MaxCols) \X (1..MaxCells) : s[1] * s[2] <= MaxCells}

UniqueNames(names) ==
    \A i, j \in 1..Len(names) : names[i] = names[j] => i = j

(***************************************************************************)
(* The pandas operations the function calls.                              *)
(***************************************************************************)

IsNumeric(dtype) == dtype.kind \in {"int", "float"}

\* lib.infer_dtype over the present values of an object column.
InferObject(vals) ==
    LET ts == {vals[i].t : i \in Present(vals)}
    IN  IF ts = {"str"} THEN PdString
        ELSE IF ts = {"bool"} THEN PdBoolean
        ELSE NpObject

\* Series.convert_dtypes: extension arrays are kept; a numpy column gets the
\* nullable dtype of its kind, a float column whose present values are all
\* integers becomes Int64, an object column the dtype its values infer to.
ConvertColumn(col) ==
    IF col.dtype.nullable THEN col
    ELSE CASE col.dtype.kind = "int" ->
                [col EXCEPT !.dtype = PdInt(col.dtype.bits)]
           [] col.dtype.kind = "float" ->
                IF \A i \in Present(col.vals) : col.vals[i].fr = FrNone
                THEN [col EXCEPT !.dtype = PdInt(64),
                                 !.vals = [i \in 1..Len(col.vals) |->
                                             IF IsNull(col.vals[i]) THEN Null
                                             ELSE AsInt(col.vals[i])]]
                ELSE [col EXCEPT !.dtype = PdFloat(col.dtype.bits)]
           [] col.dtype.kind = "bool" -> [col EXCEPT !.dtype = PdBoolean]
           [] OTHER -> [col EXCEPT !.dtype = InferObject(col.vals)]

\* DataFrame.convert_dtypes (lines 37 and 72): column by column, a new frame.
convert_dtypes(frame) == [j \in 1..Len(frame) |-> ConvertColumn(frame[j])]

\* select_dtypes(include=...).columns: the labels of the columns whose dtype
\* is of one of the kinds, in column order.
RECURSIVE SelectLabels(_, _, _)
SelectLabels(frame, kinds, j) ==
    IF j > Len(frame) THEN <<>>
    ELSE (IF frame[j].dtype.kind \in kinds THEN <<frame[j].name>> ELSE <<>>)
         \o SelectLabels(frame, kinds, j + 1)

\* frame[label]: the positions the label selects (more than one when it repeats).
Positions(frame, label) == {j \in 1..Len(frame) : frame[j].name = label}

Ok(frame) == [ok |-> TRUE, frame |-> frame, err |-> "none"]
Raised(e) == [ok |-> FALSE, frame |-> <<>>, err |-> e]

\* Series.astype(int) (line 45): a numpy int64 column; a masked array with a
\* missing value raises ValueError, as does a string or an object that is no number.
AstypeInt(col) ==
    IF col.dtype.kind \in {"string", "object"} \/ Present(col.vals) # 1..Len(col.vals)
    THEN [ok |-> FALSE, col |-> col]
    ELSE [ok |-> TRUE,
          col |-> [col EXCEPT !.dtype = NpInt(64),
                              !.vals = [i \in 1..Len(col.vals) |-> AsInt(col.vals[i])]]]

\* for col in boolean_cols: new_df[col] = new_df[col].astype(int)   (lines 44-45)
RECURSIVE BooleanLoop(_, _, _)
BooleanLoop(frame, labels, k) ==
    IF k > Len(labels) THEN Ok(frame)
    ELSE LET sel == Positions(frame, labels[k])
             cast == [j \in sel |-> AstypeInt(frame[j])]
         IN  IF \E j \in sel : ~cast[j].ok THEN Raised("ValueError")
             ELSE BooleanLoop([j \in 1..Len(frame) |->
                                  IF j \in sel THEN cast[j].col ELSE frame[j]],
                              labels, k + 1)

\* Category codes without a sentinel: a missing value is coded like the first category.
CatCodesNoSentinel(col) ==
    LET cats == {col.vals[i].n : i \in Present(col.vals)}
    IN  [col EXCEPT !.dtype = NpInt(8),
                    !.vals = [i \in 1..Len(col.vals) |->
                                IF IsNull(col.vals[i]) THEN IntV(0)
                                ELSE IntV(Cardinality({c \in cats : c < col.vals[i].n}))]]

\* Category codes in order of first appearance: a present value's code is the
\* number of distinct present values that first occur in an earlier row.
CatCodesFirstSeen(col) ==
    LET first(c) == CHOOSE i \in Present(col.vals) :
                       /\ col.vals[i].n = c
                       /\ \A k \in Present(col.vals) : col.vals[k].n = c => i <= k
        cats == {col.vals[i].n : i \in Present(col.vals)}
    IN  [col EXCEPT !.dtype = NpInt(8),
                    !.vals = [i \in 1..Len(col.vals) |->
                                IF IsNull(col.vals[i]) THEN IntV(-1)
                                ELSE IntV(Cardinality({c \in cats :
                                              first(c) < first(col.vals[i].n)}))]]

\* Series.astype('category').cat.codes (line 49): the categories are the distinct
\* present values in sorted order, a value's code is its position among them
\* (from 0), a missing value's code is -1; the codes are a numpy int8 column.
CatCodes(col) ==
    LET cats == {col.vals[i].n : i \in Present(col.vals)}
    IN  [col EXCEPT !.dtype = NpInt(8),
                    !.vals = [i \in 1..Len(col.vals) |->
                                IF IsNull(col.vals[i]) THEN IntV(-1)
                                ELSE IntV(Cardinality({c \in cats : c < col.vals[i].n}))]]

\* for col in string_cols: new_df[col] = new_df[col].astype('category').cat.codes
\* (lines 48-49). A repeated label selects a DataFrame, which has no .cat accessor.
RECURSIVE StringLoop(_, _, _)
StringLoop(frame, labels, k) ==
    IF k > Len(labels) THEN Ok(frame)
    ELSE LET sel == Positions(frame, labels[k])
         IN  IF Cardinality(sel) # 1 THEN Raised("AttributeError")
             ELSE StringLoop([j \in 1..Len(frame) |->
                                 IF j \in sel THEN CatCodes(frame[j]) ELSE frame[j]],
                             labels, k + 1)

\* The signed integer widths to_numeric tries, narrowest first.
IntWidths == {8, 16, 32, 64}

\* Whether the w-bit signed integer range holds the value's integer part.
Fits(v, w) ==
    \/ w = 64
    \/ /\ v.hi = 0
       /\ w = 32 \/ (v.n >= -(2^(w - 1)) /\ v.n <= 2^(w - 1) - 1)

\* maybe_downcast_numeric to a w-bit integer: taken when the cast values are
\* numpy.allclose (rtol 0, atol 1e-8) to the values cast.
DowncastOk(col, w) ==
    \A i \in Present(col.vals) : Fits(col.vals[i], w) /\ col.vals[i].fr # FrHalf

\* Whether a float32 (24-bit significand) holds the integer hi * 2^32 + n exactly,
\* for the integers of the model (0 <= hi <= 1).
Float32Exact(v) ==
    LET mag == IF v.n < 0 THEN -v.n ELSE v.n
    IN  CASE v.hi = 0 ->
               \/ mag <= 2^24
               \/ \E k \in 1..7 : mag % (2^k) = 0 /\ (mag \div (2^k)) <= 2^24
          [] v.hi = 1 /\ v.n < 0 -> v.n % 256 = 0
          [] v.hi = 1 /\ v.n >= 0 -> v.n % 512 = 0
          [] OTHER -> FALSE

\* maybe_downcast_numeric to float32: taken when the cast values are
\* numpy.allclose (rtol 0, atol 5e-4) to the values cast.
Float32Close(v) ==
    IF v.hi = 0 /\ v.n > -(2^23) /\ v.n < 2^23 THEN TRUE
    ELSE v.fr # FrHalf /\ Float32Exact(v)

\* to_numeric casting the whole array, the masked slots with it: a missing value
\* comes back as the number its slot holds.
to_numeric_unmasked(col, downcast) ==
    IF downcast = "none" THEN col
    ELSE [col EXCEPT !.vals = [i \in 1..Len(col.vals) |->
                                 IF IsNull(col.vals[i]) THEN IntV(0) ELSE col.vals[i]]]

\* pandas.to_numeric(series, downcast=...) on a numeric column: the missing
\* values are masked out, the present ones cast to the narrowest dtype of the
\* ladder (no wider than the column's) that passes the closeness test.
to_numeric(col, downcast) ==
    CASE downcast = "integer" ->
           LET ws == {w \in IntWidths : w <= col.dtype.bits /\ DowncastOk(col, w)}
           IN  IF ws = {} THEN col
               ELSE LET w == CHOOSE x \in ws : \A y \in ws : x <= y
                    IN  [col EXCEPT !.dtype = Dtype("int", w, col.dtype.nullable),
                                    !.vals = [i \in 1..Len(col.vals) |->
                                                IF IsNull(col.vals[i]) THEN Null
                                                ELSE AsInt(col.vals[i])]]
      [] downcast = "float" ->
           LET AsFloat(v, b) ==
                   IF IsNull(v) THEN Null
                   ELSE [v EXCEPT !.t = "float",
                                  !.fr = IF b = 32 /\ v.fr = FrEps THEN FrNone ELSE v.fr]
               Cast(b) == [col EXCEPT !.dtype = Dtype("float", b, col.dtype.nullable),
                                      !.vals = [i \in 1..Len(col.vals) |->
                                                  AsFloat(col.vals[i], b)]]
           IN  IF /\ col.dtype.bits >= 32
                  /\ ~(col.dtype.kind = "float" /\ col.dtype.bits = 32)
                  /\ \A i \in Present(col.vals) : Float32Close(col.vals[i])
               THEN Cast(32)
               ELSE IF col.dtype.kind = "int" /\ col.dtype.bits = 64 THEN Cast(64)
               ELSE col
      [] OTHER -> col

\* (a == b).all(): every present value of a equals b's, exactly.
AllEqual(a, b) ==
    \A i \in Present(a.vals) :
       /\ a.vals[i].n = b.vals[i].n
       /\ a.vals[i].hi = b.vals[i].hi
       /\ a.vals[i].fr = b.vals[i].fr

\* to_numeric_downcast as a naive downcast: the floating-point downcast of line 67
\* alone, the integer attempt left out.
to_numeric_downcast_float_only(series) == to_numeric(series, "float")

\* to_numeric_downcast without the comparison of line 60: the integer series is
\* returned whether or not it reproduces the data.
to_numeric_downcast_unchecked(series) == to_numeric(series, "integer")

\* to_numeric_downcast (lines 53-67). to_numeric raises no ValueError on a
\* numeric column, so the except branch is never taken.
to_numeric_downcast(series) ==
    LET int_series == to_numeric(series, "integer")
    IN  IF AllEqual(int_series, to_numeric(series, "none"))
        THEN int_series
        ELSE to_numeric(series, "float")

\* The downcast written as new_df = new_df[numeric_cols].apply(...): the frame
\* keeps its numeric columns only.
DowncastNumericOnly(frame) ==
    LET Numeric(col) == IsNumeric(col.dtype)
        kept == SelectSeq(frame, Numeric)
    IN  Ok([j \in 1..Len(kept) |-> to_numeric_downcast(kept[j])])

\* numeric_cols = ...; new_df[numeric_cols] = new_df[numeric_cols].apply(...)
\* (lines 52-69). A label of numeric_cols that repeats in the frame selects more
\* columns than the key names, and the assignment raises.
DowncastNumeric(frame) ==
    LET numeric_cols == SelectLabels(frame, {"int", "float"}, 1)
    IN  IF \E k \in 1..Len(numeric_cols) :
               Cardinality(Positions(frame, numeric_cols[k])) # 1
        THEN Raised("ValueError")
        ELSE Ok([j \in 1..Len(frame) |->
                    IF IsNumeric(frame[j].dtype)
                    THEN to_numeric_downcast(frame[j]) ELSE frame[j]])

(***************************************************************************)
(* The call.                                                               *)
(***************************************************************************)

VARIABLES
    heap,          \* the frame objects: "caller" (the argument) and "local"
    arg,           \* the frame value the caller passed, as it was at the call
    new_df,        \* the object the name new_df is bound to ("none" before line 34)
    string_cols,   \* line 40
    boolean_cols,  \* line 41
    pc,            \* the statement the call is at
    err            \* the exception the call ended with, "none" otherwise

\* The state of one call of convert_and_optimize_to_numerics.
frame_vars == <<heap, arg, new_df, string_cols, boolean_cols, pc, err>>

\* The state update_path (src/python/general.py) reads and writes.
VARIABLES
    proj_root,      \* os.environ's PROJ_ROOT: "unset", "" or a directory
    dotenv_root,    \* the PROJ_ROOT the .env file load_dotenv finds gives, or "none"
    settings_json,  \* the file .vscode/settings.json
    sys_path,       \* sys.path
    calls           \* the calls of update_path made so far, oldest first

path_vars == <<proj_root, dotenv_root, settings_json, sys_path, calls>>

\* The state ensure_makefile_and_env (src/python/general.py) reads and writes;
\* it writes settings_json too.
VARIABLES
    makefile,               \* the file Makefile of the working directory
    env_file,               \* the file .env: whether it exists, and its text
    env_before,             \* .env as it was when the function was called
    init_py,                \* the file __init__.py
    original_venv_setting,  \* line 197, "unread" before
    cmds,                   \* the commands run as subprocesses, oldest first
    sc_pc,                  \* the statement the function is at
    sc_err                  \* the exception in flight or raised, "none" otherwise

scaffold_vars ==
    <<makefile, env_file, env_before, init_py, original_venv_setting, cmds, sc_pc, sc_err>>

\* The state of one run of a module's command line (src/modules/python/*/cli.py).
VARIABLES
    cli_app,     \* the module whose app runs
    cli_args,    \* the arguments it was invoked with
    cli_option,  \* the parameter option of example
    cli_out,     \* the lines printed, oldest first
    cli_pc,      \* "idle", "example", "return", "exited"
    exit_code    \* the exit code, -1 while the run has not ended

cli_vars == <<cli_app, cli_args, cli_option, cli_out, cli_pc, exit_code>>

\* What a call of convert_and_optimize_to_numerics leaves alone.
tool_vars == <<path_vars, scaffold_vars, cli_vars>>

vars == <<frame_vars, path_vars, scaffold_vars, cli_vars>>

\* A text file: whether it exists, and its text as a sequence of tokens.
TextFile(e, t) == [exists |-> e, text |-> t]
NoFile == TextFile(FALSE, <<>>)

\* ensure_makefile_and_env has not been called and finds nothing.
ScaffoldIdle ==
    /\ makefile = "absent"
    /\ env_file = NoFile
    /\ env_before = NoFile
    /\ init_py = "absent"
    /\ original_venv_setting = "unread"
    /\ cmds = <<>>
    /\ sc_pc = "idle"
    /\ sc_err = "none"

\* No command line runs.
CliIdle ==
    /\ cli_app = "none"
    /\ cli_args = <<>>
    /\ cli_option = FALSE
    /\ cli_out = <<>>
    /\ cli_pc = "idle"
    /\ exit_code = -1

\* No call of convert_and_optimize_to_numerics is under way.
FrameIdle ==
    /\ heap = [caller |-> <<>>, local |-> <<>>]
    /\ arg = <<>>
    /\ new_df = "none"
    /\ string_cols = <<>>
    /\ boolean_cols = <<>>
    /\ pc = "idle"
    /\ err = "none"

\* A settings.json file: absent, not valid JSON (an empty file too), a JSON array,
\* or a JSON object with or without the keys 'python.analysis.extraPaths' (a list
\* of paths) and 'python.envFile'; layout is how the text is laid out.
SettingsFile(k, has, paths, env, lay) ==
    [kind |-> k, hasPaths |-> has, extraPaths |-> paths, envFile |-> env, layout |-> lay]
SettingsAbsent == SettingsFile("absent", FALSE, <<>>, "missing", "none")
SettingsInvalid == SettingsFile("invalid", FALSE, <<>>, "missing", "none")
SettingsArray == SettingsFile("array", FALSE, <<>>, "missing", "compact")

\* update_path has not been called and finds nothing.
PathIdle ==
    /\ proj_root = "unset"
    /\ dotenv_root = "none"
    /\ settings_json = SettingsAbsent
    /\ sys_path = <<>>
    /\ calls = <<>>

\* The caller's name for the frame it passed.
df == "caller"

\* A column assignment written as df[col] = ...: it writes to the caller's frame.
AssignTargetCaller == df

\* The object the column assignments of lines 45, 49 and 69 write to.
AssignTarget == new_df

Start(frame) ==
    /\ heap = [caller |-> frame, local |-> <<>>]
    /\ arg = frame
    /\ new_df = "none"
    /\ string_cols = <<>>
    /\ boolean_cols = <<>>
    /\ pc = "copy"
    /\ err = "none"
    /\ PathIdle
    /\ ScaffoldIdle
    /\ CliIdle

\* The call's input: a DataFrame whose column labels are distinct.
Init ==
    \E s \in Shapes :
      \E names \in [1..s[1] -> ColNames], cols \in [1..s[1] -> Columns(s[2])] :
         /\ UniqueNames(names)
         /\ Start(Frame(names, cols))

\* The call's input, column labels repeated or not.
InitNames ==
    \E s \in Shapes :
      \E names \in [1..s[1] -> ColNames], cols \in [1..s[1] -> Columns(s[2])] :
         Start(Frame(names, cols))

Raise(e) ==
    /\ pc' = "raised"
    /\ err' = e

\* Lines 28-34: a DataFrame argument is neither branch of the isinstance test;
\* new_df = df.copy(deep=True) binds new_df to a new object with the same content.
Copy ==
    /\ pc = "copy"
    /\ heap' = [heap EXCEPT !.local = heap[df]]
    /\ new_df' = "local"
    /\ pc' = "infer"
    /\ UNCHANGED <<arg, string_cols, boolean_cols, err, tool_vars>>

\* Line 37: new_df = new_df.convert_dtypes()
Infer ==
    /\ pc = "infer"
    /\ heap' = [heap EXCEPT !.local = convert_dtypes(heap[new_df])]
    /\ new_df' = "local"
    /\ pc' = "select"
    /\ UNCHANGED <<arg, string_cols, boolean_cols, err, tool_vars>>

\* Lines 40-41.
SelectColumns ==
    /\ pc = "select"
    /\ string_cols' = SelectLabels(heap[new_df], {"string"}, 1)
    /\ boolean_cols' = SelectLabels(heap[new_df], {"bool"}, 1)
    /\ pc' = "booleans"
    /\ UNCHANGED <<heap, arg, new_df, err, tool_vars>>

\* Lines 44-45.
ConvertBooleans ==
    /\ pc = "booleans"
    /\ LET r == BooleanLoop(heap[new_df], boolean_cols, 1)
       IN  IF r.ok
           THEN /\ heap' = [heap EXCEPT ![AssignTarget] = r.frame]
                /\ pc' = "strings"
                /\ err' = err
           ELSE /\ Raise(r.err)
                /\ heap' = heap
    /\ UNCHANGED <<arg, new_df, string_cols, boolean_cols, tool_vars>>

\* Lines 48-49.
ConvertStrings ==
    /\ pc = "strings"
    /\ LET r == StringLoop(heap[new_df], string_cols, 1)
       IN  IF r.ok
           THEN /\ heap' = [heap EXCEPT ![AssignTarget] = r.frame]
                /\ pc' = "numerics"
                /\ err' = err
           ELSE /\ Raise(r.err)
                /\ heap' = heap
    /\ UNCHANGED <<arg, new_df, string_cols, boolean_cols, tool_vars>>

\* Lines 52-69.
ConvertNumerics ==
    /\ pc = "numerics"
    /\ LET r == DowncastNumeric(heap[new_df])
       IN  IF r.ok
           THEN /\ heap' = [heap EXCEPT ![AssignTarget] = r.frame]
                /\ pc' = "renormalize"
                /\ err' = err
           ELSE /\ Raise(r.err)
                /\ heap' = heap
    /\ UNCHANGED <<arg, new_df, string_cols, boolean_cols, tool_vars>>

\* Line 72: new_df = new_df.convert_dtypes()
Renormalize ==
    /\ pc = "renormalize"
    /\ heap' = [heap EXCEPT !.local = convert_dtypes(heap[new_df])]
    /\ new_df' = "local"
    /\ pc' = "return"
    /\ UNCHANGED <<arg, string_cols, boolean_cols, err, tool_vars>>

\* Line 74: return new_df
Return ==
    /\ pc = "return"
    /\ pc' = "returned"
    /\ UNCHANGED <<heap, arg, new_df, string_cols, boolean_cols, err, tool_vars>>

Next ==
    \/ Copy
    \/ Infer
    \/ SelectColumns
    \/ ConvertBooleans
    \/ ConvertStrings
    \/ ConvertNumerics
    \/ Renormalize
    \/ Return

Spec == Init /\ [][Next]_vars

SpecNames == InitNames /\ [][Next]_vars

\* The frame the call returned.
Result == heap[new_df]

\* The whole call as a function of the frame passed.
convert_and_optimize_to_numerics(frame) ==
    LET inferred == convert_dtypes(frame)
        b == BooleanLoop(inferred, SelectLabels(inferred, {"bool"}, 1), 1)
        s == StringLoop(b.frame, SelectLabels(inferred, {"string"}, 1), 1)
        n == DowncastNumeric(s.frame)
    IN  IF ~b.ok THEN b
        ELSE IF ~s.ok THEN s
        ELSE IF ~n.ok THEN n
        ELSE Ok(convert_dtypes(n.frame))

(***************************************************************************)
(* update_path (src/python/general.py, lines 212-282): one action per call. *)
(***************************************************************************)

\* Longest list (extraPaths, sys.path) a run starts with.
MaxList == 2
\* Largest number of calls of update_path in a run.
MaxCalls == 3

\* The paths the calls pass and the lists hold.
Paths == {"/a", "/b"}
\* The directory PROJ_ROOT names when it is set.
ProjDir == "/proj"

Range(list) == {list[i] : i \in 1..Len(list)}
Lists == UNION {[1..n -> Paths] : n \in 0..MaxList}

\* The settings.json files a run starts with.
SettingsFiles ==
    {SettingsAbsent, SettingsInvalid, SettingsArray}
       \cup {SettingsFile("object", paths # <<>> \/ has, paths, env, lay) :
                has \in BOOLEAN, paths \in Lists, env \in {"missing", "custom"},
                lay \in {"compact", "indent4"}}

\* load_dotenv() (line 248): a variable of the .env file is put into os.environ
\* unless os.environ has it already.
load_dotenv(environ_root, file_root) ==
    IF environ_root = "unset" /\ file_root # "none" THEN file_root ELSE environ_root

\* Lines 260-261: settings_fp.write_text('{}') when the file does not exist.
EnsureExists(file) ==
    IF file.kind = "absent"
    THEN SettingsFile("object", FALSE, <<>>, "missing", "compact")
    ELSE file

\* The list append of line 273 without the membership test of line 272.
AddPathAlways(list, new_path) == Append(list, new_path)

\* if new_path not in list: list.append(new_path) (lines 272-273, 281-282).
AddPath(list, new_path) ==
    IF new_path \in Range(list) THEN list ELSE Append(list, new_path)

\* The settings file rewritten by every call (json_dump outside the if of line 272).
UpdateSettingsAlwaysWritten(file, new_path) ==
    [file EXCEPT !.hasPaths = TRUE,
                 !.extraPaths = AddPath(file.extraPaths, new_path),
                 !.layout = "indent4"]

\* Lines 271-278 on the object json_load returned: settings.get(key, []) gives the
\* list (an absent key: the empty list); when new_path is not in it, it is
\* appended, the key set, and the file written again with indent=4.
UpdateSettings(file, new_path) ==
    LET extra_paths == IF file.hasPaths THEN file.extraPaths ELSE <<>>
    IN  IF new_path \in Range(extra_paths) THEN file
        ELSE [file EXCEPT !.hasPaths = TRUE,
                          !.extraPaths = AddPath(extra_paths, new_path),
                          !.layout = "indent4"]

\* The exception update_path leaves with, "none" when it returns: lines 252-253
\* (PROJ_ROOT unset or empty), 264-268 (json_load failed: a ValueError is raised
\* in place of the JSONDecodeError caught) and 271 (a JSON array has no .get).
UpdatePathError(root, file) ==
    CASE root \in {"unset", ""} -> "EnvironmentError"
      [] file.kind = "invalid" -> "ValueError"
      [] file.kind = "array" -> "AttributeError"
      [] OTHER -> "none"

\* update_path(new_path).
UpdatePath(new_path) ==
    LET root == load_dotenv(proj_root, dotenv_root)
        file == IF root \in {"unset", ""} THEN settings_json
                ELSE EnsureExists(settings_json)
        e == UpdatePathError(root, file)
    IN  /\ Len(calls) < MaxCalls
        /\ proj_root' = root
        /\ settings_json' = IF e = "none" THEN UpdateSettings(file, new_path) ELSE file
        /\ sys_path' = IF e = "none" THEN AddPath(sys_path, new_path) ELSE sys_path
        /\ calls' = Append(calls, [path |-> new_path, root |-> root, err |-> e,
                                   settings_before |-> settings_json,
                                   sys_before |-> sys_path])
        /\ UNCHANGED <<dotenv_root, frame_vars, scaffold_vars, cli_vars>>

PathInit ==
    /\ proj_root \in {"unset", "", ProjDir}
    /\ dotenv_root \in {"none", ProjDir}
    /\ settings_json \in SettingsFiles
    /\ sys_path \in Lists
    /\ calls = <<>>
    /\ FrameIdle
    /\ ScaffoldIdle
    /\ CliIdle

PathNext == \E new_path \in Paths : UpdatePath(new_path)

SpecPath == PathInit /\ [][PathNext]_vars

(***************************************************************************)
(* ensure_makefile_and_env (src/python/general.py, lines 82-210): one call, *)
(* one action per step of the function body.                               *)
(*                                                                         *)
(* The text of .env is a sequence of tokens: the line terminator NL, or an *)
(* assignment KEY=value written without a line terminator. A line is a     *)
(* maximal run of tokens without NL, as readlines() and grep split a text. *)
(***************************************************************************)

\* Longest text (in tokens) .env starts with.
MaxText == 3

\* The working directory, PlPath.cwd() of line 109.
Cwd == "/cwd"

NL == [key |-> "\n", val |-> ""]
Assign(k, v) == [key |-> k, val |-> v]

\* The tokens the .env file starts with.
EnvTokens == {Assign("PROJ_ROOT", "/old"), Assign("PYTHONPATH", "/old"),
              Assign("FOO", "bar"), NL}
EnvFiles == {NoFile} \cup {TextFile(TRUE, t) : t \in UNION {[1..n -> EnvTokens] : n \in 0..MaxText}}

\* The positions where a line with content starts, and the line that starts there.
LineStarts(text) ==
    {i \in 1..Len(text) : text[i] # NL /\ (i = 1 \/ text[i - 1] = NL)}
LineAt(text, i) ==
    LET end == CHOOSE j \in i..Len(text) :
                   /\ \A k \in i..j : text[k] # NL
                   /\ j = Len(text) \/ text[j + 1] = NL
    IN  SubSeq(text, i, end)

\* any(line.startswith(key + "=") for line in lines) (lines 170-171), and
\* grep -q '^KEY' of the Makefile's env target.
Defined(text, k) == \E i \in LineStarts(text) : text[i].key = k

\* Lines 165-175: the .env step. write_text creates the file with both lines;
\* an existing file is opened 'r+', read to its end by readlines(), and the
\* lines of the variables not yet defined are written at that position.
EnsureEnvFile(file) ==
    IF ~file.exists
    THEN TextFile(TRUE, <<Assign("PROJ_ROOT", Cwd), NL, Assign("PYTHONPATH", Cwd), NL>>)
    ELSE LET lines == file.text
             proj_root_defined == Defined(lines, "PROJ_ROOT")
             pythonpath_defined == Defined(lines, "PYTHONPATH")
         IN  TextFile(TRUE,
                 lines \o (IF proj_root_defined THEN <<>>
                           ELSE <<Assign("PROJ_ROOT", Cwd), NL>>)
                       \o (IF pythonpath_defined THEN <<>>
                           ELSE <<Assign("PYTHONPATH", Cwd), NL>>))

\* The env target of the generated Makefile (lines 117-121), run by make as a
\* prerequisite of requirements: echo appends a line for a variable no line
\* starts with; $(pwd) is a make variable, which is empty.
MakeEnvTarget(file) ==
    LET created == IF file.exists THEN file.text ELSE <<Assign("PROJ_ROOT", Cwd), NL>>
        with_root == created \o (IF Defined(created, "PROJ_ROOT") THEN <<>>
                                 ELSE <<Assign("PROJ_ROOT", Cwd), NL>>)
    IN  TextFile(TRUE,
            with_root \o (IF Defined(with_root, "PYTHONPATH") THEN <<>>
                          ELSE <<Assign("PYTHONPATH", ""), NL>>))

\* Lines 157-162: the Makefile is written when there is no such file, extended
\* when it lacks "env:", left alone otherwise.
EnsureMakefileFile(m) ==
    CASE m = "absent" -> "generated"
      [] m = "other" -> "appended"
      [] OTHER -> m

\* Lines 178-191: the settings read (an absent, empty or invalid file: {}),
\* python.envFile set, and the file written with indent=4.
EnsureSettingsFile(file) ==
    IF file.kind = "object"
    THEN [file EXCEPT !.envFile = "workspace", !.layout = "indent4"]
    ELSE SettingsFile("object", FALSE, <<>>, "workspace", "indent4")

\* A subprocess command: poetry config virtualenvs.in-project (show), the same
\* with a value (set) or with --unset (unset), and make requirements.
Command(prog, do, value) == [prog |-> prog, do |-> do, value |-> value]
ShowCommand == Command("poetry", "show", "")
MakeCommand == Command("make", "requirements", "")

\* What poetry config virtualenvs.in-project can print, stripped (line 199).
PoetryOutputs == {"", "true", "false", "null"}
\* How run(["make", "requirements"], check=True) can end: "none" is a return.
MakeOutcomes == {"none", "CalledProcessError", "FileNotFoundError"}

\* Lines 205-210: the command that restores the setting.
RestoreCommand(saved) ==
    IF saved # "" THEN Command("poetry", "set", saved)
    ELSE Command("poetry", "unset", "")

\* The try statement without its finally clause: an exception of make leaves the
\* function at once.
AfterMakeWithoutFinally(outcome) == IF outcome = "none" THEN "finally" ELSE "raised"

\* Lines 202-204: where control goes when make has ended, however it ended.
AfterMake(outcome) == "finally"

ScaffoldRaise(e) ==
    /\ sc_pc' = "raised"
    /\ sc_err' = e

\* Lines 156-162. Writing to a Makefile that is a directory raises.
EnsureMakefile ==
    /\ sc_pc = "makefile"
    /\ IF makefile = "directory"
       THEN /\ ScaffoldRaise("IsADirectoryError")
            /\ makefile' = makefile
       ELSE /\ makefile' = EnsureMakefileFile(makefile)
            /\ sc_pc' = "env"
            /\ sc_err' = sc_err
    /\ UNCHANGED <<env_file, env_before, init_py, original_venv_setting, cmds,
                   settings_json, proj_root, dotenv_root, sys_path, calls,
                   frame_vars, cli_vars>>

\* Lines 164-175.
EnsureEnv ==
    /\ sc_pc = "env"
    /\ env_file' = EnsureEnvFile(env_file)
    /\ sc_pc' = "settings"
    /\ UNCHANGED <<makefile, env_before, init_py, original_venv_setting, cmds, sc_err,
                   path_vars, frame_vars, cli_vars>>

\* Lines 177-191. A JSON array loads as a list, which line 188 cannot index by a key.
EnsureSettings ==
    /\ sc_pc = "settings"
    /\ IF settings_json.kind = "array"
       THEN /\ ScaffoldRaise("TypeError")
            /\ settings_json' = settings_json
       ELSE /\ settings_json' = EnsureSettingsFile(settings_json)
            /\ sc_pc' = "init"
            /\ sc_err' = sc_err
    /\ UNCHANGED <<makefile, env_file, env_before, init_py, original_venv_setting, cmds,
                   proj_root, dotenv_root, sys_path, calls, frame_vars, cli_vars>>

\* Line 194.
WriteInit ==
    /\ sc_pc = "init"
    /\ init_py' = "from src import config"
    /\ sc_pc' = "save"
    /\ UNCHANGED <<makefile, env_file, env_before, original_venv_setting, cmds, sc_err,
                   path_vars, frame_vars, cli_vars>>

\* Lines 197-199: check_output raises when poetry cannot be run or fails.
SavePoetrySetting ==
    /\ sc_pc = "save"
    /\ cmds' = Append(cmds, ShowCommand)
    /\ \/ \E out \in PoetryOutputs :
             /\ original_venv_setting' = out
             /\ sc_pc' = "make"
             /\ sc_err' = sc_err
       \/ /\ \E e \in {"CalledProcessError", "FileNotFoundError"} : ScaffoldRaise(e)
          /\ original_venv_setting' = original_venv_setting
    /\ UNCHANGED <<makefile, env_file, env_before, init_py, path_vars, frame_vars, cli_vars>>

\* Line 203: make runs the requirements target; with the Makefile of lines
\* 116-154 its prerequisite env runs first (a failing make may end before it).
MakeRequirements ==
    /\ sc_pc = "make"
    /\ cmds' = Append(cmds, MakeCommand)
    /\ \E outcome \in MakeOutcomes, env_ran \in BOOLEAN :
          /\ outcome = "none" => env_ran
          /\ outcome = "FileNotFoundError" => ~env_ran
          /\ sc_err' = outcome
          /\ sc_pc' = AfterMake(outcome)
          /\ env_file' = IF env_ran /\ makefile \in {"generated", "appended"}
                         THEN MakeEnvTarget(env_file) ELSE env_file
    /\ UNCHANGED <<makefile, env_before, init_py, original_venv_setting,
                   path_vars, frame_vars, cli_vars>>

\* Lines 204-210: the finally clause, then the return or the exception of make
\* raised again.
RestorePoetrySetting ==
    /\ sc_pc = "finally"
    /\ cmds' = Append(cmds, RestoreCommand(original_venv_setting))
    /\ sc_pc' = IF sc_err = "none" THEN "returned" ELSE "raised"
    /\ UNCHANGED <<makefile, env_file, env_before, init_py, original_venv_setting, sc_err,
                   path_vars, frame_vars, cli_vars>>

\* The settings.json files the function may find.
ScaffoldSettings ==
    {SettingsAbsent, SettingsInvalid, SettingsArray,
     SettingsFile("object", FALSE, <<>>, "custom", "compact"),
     SettingsFile("object", TRUE, <<"/a">>, "missing", "indent4")}

ScaffoldInit ==
    /\ makefile \in {"absent", "generated", "with_env", "other", "directory"}
    /\ env_file \in EnvFiles
    /\ env_before = env_file
    /\ init_py \in {"absent", "other"}
    /\ original_venv_setting = "unread"
    /\ cmds = <<>>
    /\ sc_pc = "makefile"
    /\ sc_err = "none"
    /\ settings_json \in ScaffoldSettings
    /\ proj_root = "unset"
    /\ dotenv_root = "none"
    /\ sys_path = <<>>
    /\ calls = <<>>
    /\ FrameIdle
    /\ CliIdle

ScaffoldNext ==
    \/ EnsureMakefile
    \/ EnsureEnv
    \/ EnsureSettings
    \/ WriteInit
    \/ SavePoetrySetting
    \/ MakeRequirements
    \/ RestorePoetrySetting

SpecScaffold == ScaffoldInit /\ [][ScaffoldNext]_vars

(***************************************************************************)
(* The module command lines (src/modules/python/*/cli.py): one run of an   *)
(* app, as app() or CliRunner.invoke(app, args) starts it.                 *)
(***************************************************************************)

\* Largest number of command-line arguments of a run.
MaxArgs == 3

\* The apps, by the words their lines name the module with (lines 11 and 13).
Apps == {"data science", "dev tools", "document tools"}
\* The arguments a run draws from.
ArgWords == {"example", "--option", "--no-option", "--help"}
ArgLists == UNION {[1..n -> ArgWords] : n \in 0..MaxArgs}

\* The commands registered with @app.command() (line 5).
RegisteredCommands == {"example"}

\* A printed line: a line of example (lines 11, 13), or a line Click writes.
ExampleLine(app, with_option) == [kind |-> "example", app |-> app, option |-> with_option]
HelpText == <<[kind |-> "usage", app |-> "", option |-> FALSE],
              [kind |-> "help", app |-> "", option |-> FALSE]>>
UsageError == <<[kind |-> "usage", app |-> "", option |-> FALSE],
                [kind |-> "error", app |-> "", option |-> FALSE]>>

\* print of lines 10-13.
ExampleOutput(app, option) ==
    IF option THEN <<ExampleLine(app, TRUE)>> ELSE <<ExampleLine(app, FALSE)>>

\* The value of the flag --option/--no-option: the last one given, False when none.
RECURSIVE ParseOption(_, _)
ParseOption(args, k) ==
    IF k = 0 THEN FALSE
    ELSE IF args[k] = "--option" THEN TRUE
    ELSE IF args[k] = "--no-option" THEN FALSE
    ELSE ParseOption(args, k - 1)

\* typer.Typer builds a command group only for an app with a callback or more
\* than one registered command; an app with one command and no callback (line 3,
\* line 5) is that command itself, and takes no command name.
IsGroup == Cardinality(RegisteredCommands) > 1

\* How Click parses the arguments: "help" (--help is eager), "error" (a usage
\* error: a word the command does not take), or "run".
Parse(args) ==
    LET words == {k \in 1..Len(args) : args[k] \notin {"--option", "--no-option", "--help"}}
        named == IsGroup /\ Len(args) > 0 /\ args[1] \in RegisteredCommands
        extra == IF named THEN words \ {1} ELSE words
    IN  IF IsGroup /\ ~named
        THEN (IF args = <<>> \/ args[1] = "--help" THEN "help" ELSE "error")
        ELSE IF \E k \in 1..Len(args) : args[k] = "--help" THEN "help"
        ELSE IF extra # {} THEN "error"
        ELSE "run"

\* The app started with the arguments args (line 16, or CliRunner.invoke).
Invoke(app, args) ==
    /\ cli_pc = "idle"
    /\ cli_app' = app
    /\ cli_args' = args
    /\ CASE Parse(args) = "help" ->
              /\ cli_out' = HelpText
              /\ exit_code' = 0
              /\ cli_pc' = "exited"
              /\ cli_option' = cli_option
         [] Parse(args) = "error" ->
              /\ cli_out' = UsageError
              /\ exit_code' = 2
              /\ cli_pc' = "exited"
              /\ cli_option' = cli_option
         [] OTHER ->
              /\ cli_option' = ParseOption(args, Len(args))
              /\ cli_pc' = "example"
              /\ UNCHANGED <<cli_out, exit_code>>
    /\ UNCHANGED <<frame_vars, path_vars, scaffold_vars>>

\* example(option) (lines 6-13).
Example ==
    /\ cli_pc = "example"
    /\ cli_out' = cli_out \o ExampleOutput(cli_app, cli_option)
    /\ cli_pc' = "return"
    /\ UNCHANGED <<cli_app, cli_args, cli_option, exit_code,
                   frame_vars, path_vars, scaffold_vars>>

\* The command returned: the app exits with code 0.
Exit ==
    /\ cli_pc = "return"
    /\ exit_code' = 0
    /\ cli_pc' = "exited"
    /\ UNCHANGED <<cli_app, cli_args, cli_option, cli_out,
                   frame_vars, path_vars, scaffold_vars>>

CliInit ==
    /\ CliIdle
    /\ FrameIdle
    /\ PathIdle
    /\ ScaffoldIdle

CliNext ==
    \/ \E app \in Apps, args \in ArgLists : Invoke(app, args)
    \/ Example
    \/ Exit

SpecCli == CliInit /\ [][CliNext]_vars

(***************************************************************************)
(* Properties.                                                             *)
(***************************************************************************)

Ended == pc \in {"returned", "raised"}

\* The dtype line 37 gives column j of the argument: its classification.
Classified(j) == ConvertColumn(arg[j]).dtype

\* C1: the call never mutates its input: in every state of the call, also after
\* it returned and after it raised part-way, the caller's frame holds the
\* columns, values, missing values and dtypes it held at the call.
C1_InputNeverMutated == heap[df] = arg

\* A call that raised after new_df had already been converted in part.
C1_Witness == pc = "raised" /\ heap[new_df] # arg /\ heap[df] = arg

\* C2: the call is total: it never ends in an error.
C2_NeverRaises == pc # "raised" /\ err = "none"

\* C3 as claimed: in the returned frame, row i of every column is missing
\* exactly when row i of the argument's column is missing.
C3_NullsPreserved ==
    pc = "returned" =>
       \A j \in 1..Len(arg) : \A i \in 1..Len(arg[j].vals) :
          IsNull(Result[j].vals[i]) <=> IsNull(arg[j].vals[i])

\* C3 amended: in the returned frame, a column classified string has no missing
\* value and holds -1 exactly in the rows where the argument's column is missing;
\* in every other column row i is missing exactly when the argument's row i is.
C3_NullsPreservedOrCoded ==
    pc = "returned" =>
       \A j \in 1..Len(arg) : \A i \in 1..Len(arg[j].vals) :
          IF Classified(j) = PdString
          THEN /\ ~IsNull(Result[j].vals[i])
               /\ Result[j].vals[i] = IntV(-1) <=> IsNull(arg[j].vals[i])
          ELSE IsNull(Result[j].vals[i]) <=> IsNull(arg[j].vals[i])

\* A returned frame with a missing value in a string column and in a numeric one.
C3_Witness ==
    /\ pc = "returned"
    /\ \E j \in 1..Len(arg) :
          Classified(j) = PdString /\ Present(arg[j].vals) # 1..Len(arg[j].vals)
    /\ \E j \in 1..Len(arg) :
          /\ IsNumeric(Classified(j))
          /\ Present(arg[j].vals) # 1..Len(arg[j].vals)
          /\ Present(arg[j].vals) # {}

\* C4: under the full policy every column classified boolean is returned as an
\* 8-bit integer column with True as 1, False as 0 and a missing value missing
\* in the same row.
C4_BooleanMapping ==
    Ended =>
       \A j \in 1..Len(arg) :
          Classified(j) = PdBoolean =>
             /\ pc = "returned"
             /\ Result[j].dtype = PdInt(8)
             /\ \A i \in 1..Len(arg[j].vals) :
                   Result[j].vals[i] =
                      IF IsNull(arg[j].vals[i]) THEN Null ELSE IntV(arg[j].vals[i].n)

\* Whether the signed w-bit range holds the integer hi * 2^32 + n.
InRange(v, w) ==
    CASE w = 8 -> v.hi = 0 /\ v.n >= -128 /\ v.n <= 127
      [] w = 16 -> v.hi = 0 /\ v.n >= -32768 /\ v.n <= 32767
      [] w = 32 -> v.hi = 0
      [] w = 64 -> TRUE

\* C5: a numeric column is returned as an integer column only if that reproduces
\* every present value exactly, and then in the narrowest of the widths 8, 16, 32
\* and 64 whose range holds all its present values; a column with a present value
\* that has a fractional part is returned as a floating-point column.
C5_IntegerExactness ==
    pc = "returned" =>
       \A j \in 1..Len(arg) :
          arg[j].dtype.kind \in {"int", "float"} =>
             LET in == arg[j].vals
                 out == Result[j]
             IN  /\ out.dtype.kind = "int" =>
                       /\ \A i \in Present(in) :
                             /\ in[i].fr = FrNone
                             /\ out.vals[i] = AsInt(in[i])
                       /\ \A w \in {8, 16, 32, 64} :
                             (\A i \in Present(in) : InRange(in[i], w))
                                <=> out.dtype.bits <= w
                 /\ (\E i \in Present(in) : in[i].fr # FrNone) =>
                       /\ out.dtype.kind = "float"
                       /\ \A i \in Present(in) : out.vals[i].t = "float"

\* A returned frame with a 16-bit integer column beside a column kept floating-point.
C5_Witness ==
    /\ pc = "returned"
    /\ \E j \in 1..Len(arg) :
          arg[j].dtype.kind = "int" /\ Result[j].dtype = PdInt(16)
    /\ \E j \in 1..Len(arg) :
          /\ \E i \in Present(arg[j].vals) : arg[j].vals[i].fr = FrEps
          /\ Result[j].dtype.kind = "float"

\* C6: in every column classified string, two rows get the same code exactly
\* when they hold the same string, a present string's code is not negative, and
\* a missing row gets -1, which is no present string's code.
C6_CategoricalCodes ==
    pc = "returned" =>
       \A j \in 1..Len(arg) :
          Classified(j) = PdString =>
             LET in == arg[j].vals
                 out == Result[j].vals
             IN  /\ \A i, k \in Present(in) : out[i] = out[k] <=> in[i] = in[k]
                 /\ \A i \in Present(in) : out[i].t = "int" /\ out[i].n >= 0
                 /\ \A i \in 1..Len(in) : IsNull(in[i]) => out[i] = IntV(-1)

\* A returned string column with a repeated string, two distinct strings and a
\* missing value.
C6_Witness ==
    /\ pc = "returned"
    /\ \E j \in 1..Len(arg) :
          /\ Classified(j) = PdString
          /\ \E i, k \in Present(arg[j].vals) : i # k /\ arg[j].vals[i] = arg[j].vals[k]
          /\ \E i, k \in Present(arg[j].vals) : arg[j].vals[i] # arg[j].vals[k]
          /\ Present(arg[j].vals) # 1..Len(arg[j].vals)

\* C7: the returned frame determines the strings it was made from: no two string
\* columns with different values are returned as the same column, so that a
\* dictionary from code to string can be had from what the call returns.
C7_CodesDecodable ==
    pc = "returned" =>
       \A j \in 1..Len(arg) :
          Classified(j) = PdString =>
             \A c \in Columns(Len(arg[j].vals)) :
                LET other == [name |-> arg[j].name, dtype |-> c.dtype, vals |-> c.vals]
                    r == convert_and_optimize_to_numerics(<<other>>)
                IN  (ConvertColumn(other).dtype = PdString /\ r.ok /\ r.frame[1] = Result[j])
                       => c.vals = arg[j].vals

\* C8: a returned frame is a fixed point: the call on it returns it again, with
\* the same values, missing values and dtypes.
C8_Idempotent ==
    pc = "returned" => convert_and_optimize_to_numerics(Result) = Ok(Result)

\* The frame with its columns labelled by position, and with its columns reversed.
Relabel(frame) == [j \in 1..Len(frame) |-> [frame[j] EXCEPT !.name = j]]
Reverse(frame) == [j \in 1..Len(frame) |-> frame[Len(frame) + 1 - j]]

\* Whether the call that ended in this state and the call r agree on column j of
\* this call and column k of r: both returned, with the same dtype and values,
\* or neither did.
SameOutcome(j, r, k) ==
    /\ r.ok <=> pc = "returned"
    /\ r.ok => /\ Result[j].dtype = r.frame[k].dtype
               /\ Result[j].vals = r.frame[k].vals

\* C9: a column's classification and output depend on its values alone: the call
\* on the same columns under other labels, or in another order, gives every
\* column the same result, and a returned column is what the call returns for
\* that column alone.
C9_ValuesOnly ==
    Ended =>
       \A j \in 1..Len(arg) :
          /\ SameOutcome(j, convert_and_optimize_to_numerics(Relabel(arg)), j)
          /\ SameOutcome(j, convert_and_optimize_to_numerics(Reverse(arg)),
                         Len(arg) + 1 - j)
          /\ pc = "returned" =>
                SameOutcome(j, convert_and_optimize_to_numerics(<<arg[j]>>), 1)

\* C10: the returned frame has the argument's number of columns, its column
\* labels in the same order and its number of rows, and row i of a column holds
\* what the argument's row i became: the same number for a number or a boolean,
\* a code for a string, the value itself in a column left as it was.
C10_ShapePreserved ==
    pc = "returned" =>
       /\ Len(Result) = Len(arg)
       /\ \A j \in 1..Len(arg) :
             /\ Result[j].name = arg[j].name
             /\ Len(Result[j].vals) = Len(arg[j].vals)
             /\ \A i \in 1..Len(arg[j].vals) :
                   LET a == arg[j].vals[i]
                       o == Result[j].vals[i]
                   IN  CASE Classified(j) = PdString ->
                              o.t = "int" /\ (o.n = -1 <=> IsNull(a))
                         [] Classified(j) = NpObject -> o = a
                         [] OTHER ->
                              /\ IsNull(o) <=> IsNull(a)
                              /\ o.n = a.n /\ o.hi = a.hi

\* A returned frame of two columns and two rows, one column converted and one
\* left as it was.
C10_Witness ==
    /\ pc = "returned"
    /\ Len(arg) = 2
    /\ Len(arg[1].vals) = 2
    /\ \E j \in 1..2 : Classified(j) = NpObject
    /\ \E j \in 1..2 : Result[j] # arg[j] /\ arg[j].vals[1] # arg[j].vals[2]

\* The rows of a frame of n rows in another order: row i of the result is row p[i].
RowOrders(n) == {p \in [1..n -> 1..n] : \A a, b \in 1..n : p[a] = p[b] => a = b}
PermuteRows(frame, p) ==
    [j \in 1..Len(frame) |->
        [frame[j] EXCEPT !.vals = [i \in 1..Len(frame[j].vals) |-> frame[j].vals[p[i]]]]]

\* C17: in every column classified string with k distinct present strings the
\* codes of the present rows are exactly 0..k-1, a string that sorts before
\* another has the smaller code, and the call on the same rows in any other
\* order gives every row, hence every string, the code it had.
C17_CodesOrderIndependent ==
    pc = "returned" =>
       \A j \in 1..Len(arg) :
          Classified(j) = PdString =>
             LET in == arg[j].vals
                 out == Result[j].vals
                 k == Cardinality({in[i].n : i \in Present(in)})
             IN  /\ {out[i].n : i \in Present(in)} = 0..(k - 1)
                 /\ \A a, b \in Present(in) : in[a].n < in[b].n => out[a].n < out[b].n
                 /\ \A p \in RowOrders(Len(in)) :
                       LET r == convert_and_optimize_to_numerics(PermuteRows(arg, p))
                       IN  /\ r.ok
                           /\ \A i \in 1..Len(in) : r.frame[j].vals[i] = out[p[i]]

\* A returned string column whose first present row holds the string that sorts
\* last of its two distinct strings.
C17_Witness ==
    /\ pc = "returned"
    /\ \E j \in 1..Len(arg) :
          /\ Classified(j) = PdString
          /\ \E a, b \in Present(arg[j].vals) :
                /\ a < b
                /\ arg[j].vals[a].n > arg[j].vals[b].n
                /\ \A i \in Present(arg[j].vals) : a <= i

SettingsAfter(i) == IF i = Len(calls) THEN settings_json ELSE calls[i + 1].settings_before
SysPathAfter(i) == IF i = Len(calls) THEN sys_path ELSE calls[i + 1].sys_before
Count(list, x) == Cardinality({i \in 1..Len(list) : list[i] = x})
NoRepeats(list) == \A x \in Range(list) : Count(list, x) = 1

\* C11: when the run starts with a settings.json that is absent or a JSON object
\* whose extraPaths list has no repeated entry, then after every call that
\* returned the list has no repeated entry and holds every path passed so far
\* exactly once, the other key of the file is as at the start, and a call whose
\* path was already in the list and in sys.path left both as they were.
C11_PathAddedOnce ==
    (/\ calls # <<>>
     /\ calls[1].settings_before.kind \in {"absent", "object"}
     /\ NoRepeats(calls[1].settings_before.extraPaths)) =>
       \A i \in 1..Len(calls) :
          calls[i].err = "none" =>
             LET file == SettingsAfter(i)
                 before == calls[i].settings_before
             IN  /\ file.kind = "object"
                 /\ NoRepeats(file.extraPaths)
                 /\ \A k \in 1..i :
                       calls[k].err = "none" => Count(file.extraPaths, calls[k].path) = 1
                 /\ file.envFile = calls[1].settings_before.envFile
                 /\ (/\ before.hasPaths
                     /\ calls[i].path \in Range(before.extraPaths)
                     /\ calls[i].path \in Range(calls[i].sys_before)) =>
                       /\ file = before
                       /\ SysPathAfter(i) = calls[i].sys_before

\* Three calls returned: a path added to a compact file that had another path,
\* then the same path passed again, when it is in the list and in sys.path.
C11_Witness ==
    /\ Len(calls) = 3
    /\ \A i \in 1..3 : calls[i].err = "none"
    /\ calls[1].settings_before.layout = "compact"
    /\ calls[1].settings_before.extraPaths = <<"/b">>
    /\ calls[1].path = "/a"
    /\ calls[2].path = "/a"
    /\ settings_json.extraPaths = <<"/b", "/a">>

\* C12: a call that finds PROJ_ROOT unset raises EnvironmentError, a call that
\* finds settings.json with invalid JSON raises JSONDecodeError, and either call
\* leaves settings.json and sys.path as they were.
C12_DocumentedErrors ==
    \A i \in 1..Len(calls) :
       /\ calls[i].root \in {"unset", ""} =>
             /\ calls[i].err = "EnvironmentError"
             /\ SettingsAfter(i) = calls[i].settings_before
             /\ SysPathAfter(i) = calls[i].sys_before
       /\ (calls[i].root = ProjDir /\ calls[i].settings_before.kind = "invalid") =>
             /\ calls[i].err = "JSONDecodeError"
             /\ SettingsAfter(i) = calls[i].settings_before
             /\ SysPathAfter(i) = calls[i].sys_before

\* The text of .env right after the .env step (lines 164-175).
AfterEnvStep == sc_pc = "settings"

\* C13: whatever .env was, after the .env step it has a line that starts with
\* PROJ_ROOT= and a line that starts with PYTHONPATH=, every line it had is
\* still there unchanged, and the step run again appends nothing.
C13_EnvEnsured ==
    AfterEnvStep =>
       /\ env_file.exists
       /\ Defined(env_file.text, "PROJ_ROOT")
       /\ Defined(env_file.text, "PYTHONPATH")
       /\ \A i \in LineStarts(env_before.text) :
             /\ i \in LineStarts(env_file.text)
             /\ LineAt(env_file.text, i) = LineAt(env_before.text, i)
       /\ EnsureEnvFile(env_file) = env_file

\* The commands of cmds that restore the setting, by position.
Restores == {i \in 1..Len(cmds) : cmds[i].prog = "poetry" /\ cmds[i].do \in {"set", "unset"}}
Makes == {i \in 1..Len(cmds) : cmds[i] = MakeCommand}

\* C16: make is started only after the setting was read; and when the function
\* has returned or raised after make was started, exactly one restore command was
\* issued, after make ended: set to the saved value when that is not empty,
\* unset otherwise; the function raises exactly when make failed.
C16_SettingRestored ==
    /\ \A i \in Makes :
          /\ \E k \in 1..(i - 1) : cmds[k] = ShowCommand
          /\ original_venv_setting \in PoetryOutputs
    /\ (sc_pc \in {"returned", "raised"} /\ Makes # {}) =>
          /\ Cardinality(Restores) = 1
          /\ \A r \in Restores :
                /\ \A i \in Makes : i < r
                /\ cmds[r] = RestoreCommand(original_venv_setting)
                /\ original_venv_setting # "" => cmds[r].do = "set"
                /\ original_venv_setting = "" => cmds[r].do = "unset"
          /\ sc_pc = "raised" <=> sc_err # "none"

\* make failed with the setting saved as true: the function raised, after the
\* setting was set to true again.
C16_Witness ==
    /\ sc_pc = "raised"
    /\ sc_err = "CalledProcessError"
    /\ original_venv_setting = "true"
    /\ cmds = <<ShowCommand, MakeCommand, Command("poetry", "set", "true")>>

\* C15: a run of an app's example command, invoked as 'example' with or without
\* --option, ends with exit code 0 and one printed line: the line that names the
\* module, with 'option' in it exactly when --option was given.
C15_ExampleCommand ==
    (/\ cli_pc = "exited"
     /\ cli_args \in {<<"example">>, <<"example", "--option">>}) =>
       /\ exit_code = 0
       /\ cli_out = <<ExampleLine(cli_app, Len(cli_args) = 2)>>

====
